---- MODULE Spec2Model ----
(***************************************************************************)
(* Model of src/server.py: the /grouped-invoices handler                   *)
(* (get_grouped_invoices) and the spreadsheet publisher                    *)
(* (upload_to_google_sheet).                                               *)
(*                                                                         *)
(* Python values are modelled as follows.                                  *)
(*   - a str is a TLA+ string; None is the sentinel string None;           *)
(*   - a dict key that may be missing is an option: <<>> when the key is   *)
(*     absent, <<v>> when it is present with value v;                      *)
(*   - a list is a sequence;                                               *)
(*   - a datetime is the tuple <<year, month, day, hour, minute, second,   *)
(*     microsecond>>, ordered lexicographically as Python orders it;       *)
(*   - the insertion-ordered dict clients is the pair (order, clients):    *)
(*     order is the sequence of keys in insertion order and clients maps   *)
(*     each key of order to its value.                                     *)
(***************************************************************************)
EXTENDS Integers, Sequences, FiniteSets, TLC

VARIABLES
    pc,            \* position of the current request in the handler
    api,           \* which data set the remote invoicing API serves from
    invoices,      \* list returned by get_open_invoices
    now,           \* datetime.now() read at line 82
    clients,       \* values of the dict clients
    order,         \* keys of the dict clients, in insertion order
    idx,           \* 1-based position of the for loop of line 85
    max_invoices,  \* line 125
    headers,       \* line 140
    rows,          \* the lists handed to writer.writerow at line 166
    csv_string,    \* line 168, as the rows csv.reader reads back from it
    sheet,         \* cell values of worksheet "Sheet1" of "Invoice Tracker"
    response,      \* body of the Response returned at line 172, if any
    raised,        \* name of the exception that ended the request, if any
    sheet_before   \* the cell values of the worksheet when the request started

vars == <<pc, api, invoices, now, clients, order, idx, max_invoices,
          headers, rows, csv_string, sheet, response, raised, sheet_before>>

-----------------------------------------------------------------------------
(* Bounds *)

\* longest list of invoices the API returns
MaxLen == 3

-----------------------------------------------------------------------------
(* Python values *)

None == "<None>"

Absent == <<>>

Some(v) == <<v>>

\* dict.get(key, default)
DictGet(opt, default) == IF opt = Absent THEN default ELSE opt[1]

\* truth value of a str or None
Truthy(v) == v # None /\ v # ""

Max(a, b) == IF a >= b THEN a ELSE b

Min(a, b) == IF a <= b THEN a ELSE b

RECURSIVE Join(_, _)
\* sep.join(strs)
Join(sep, strs) ==
    IF Len(strs) = 0 THEN ""
    ELSE IF Len(strs) = 1 THEN strs[1]
    ELSE strs[1] \o sep \o Join(sep, Tail(strs))

-----------------------------------------------------------------------------
(* Due-date strings and datetime.strptime(s[:10], "%Y-%m-%d") *)

\* The characters of each due-date string that the modelled API serves.
Chars(s) ==
    CASE s = "" -> <<>>
      [] s = "2000-01-01" -> <<"2","0","0","0","-","0","1","-","0","1">>
      [] s = "2030-12-31T23:59:59" ->
            <<"2","0","3","0","-","1","2","-","3","1","T",
              "2","3",":","5","9",":","5","9">>
      [] s = "2025-01-01" -> <<"2","0","2","5","-","0","1","-","0","1">>
      [] s = "2025-1-1" -> <<"2","0","2","5","-","1","-","1">>
      [] s = "2024-02-29" -> <<"2","0","2","4","-","0","2","-","2","9">>
      [] s = "2024-02-30" -> <<"2","0","2","4","-","0","2","-","3","0">>
      [] s = "2025-13-01" -> <<"2","0","2","5","-","1","3","-","0","1">>

\* s[:10]
Slice10(cs) == SubSeq(cs, 1, Min(10, Len(cs)))

Digits == <<"0", "1", "2", "3", "4", "5", "6", "7", "8", "9">>

IsDigit(c) == \E i \in 1..10 : Digits[i] = c

DigitVal(c) == (CHOOSE i \in 1..10 : Digits[i] = c) - 1

\* cs[i], or a character that matches nothing when i is past the end
At(cs, i) == IF i >= 1 /\ i <= Len(cs) THEN cs[i] ELSE "<end>"

\* %m at position i: 1[0-2]|0[1-9]|[1-9]; <<month, next position>>, <<0, i>> on no match
MatchMonth(cs, i) ==
    LET a == At(cs, i)
        b == At(cs, i + 1)
    IN  IF a = "1" /\ b \in {"0", "1", "2"} /\ At(cs, i + 2) = "-"
          THEN <<10 + DigitVal(b), i + 2>>
        ELSE IF a = "0" /\ IsDigit(b) /\ b # "0" /\ At(cs, i + 2) = "-"
          THEN <<DigitVal(b), i + 2>>
        ELSE IF IsDigit(a) /\ a # "0" /\ b = "-"
          THEN <<DigitVal(a), i + 1>>
        ELSE <<0, i>>

\* %d at position i: 3[01]|[12]\d|0[1-9]|[1-9]| [1-9]; <<day, next position>>
MatchDay(cs, i) ==
    LET a == At(cs, i)
        b == At(cs, i + 1)
    IN  IF a = "3" /\ b \in {"0", "1"}
          THEN <<30 + DigitVal(b), i + 2>>
        ELSE IF a \in {"1", "2"} /\ IsDigit(b)
          THEN <<10 * DigitVal(a) + DigitVal(b), i + 2>>
        ELSE IF a = "0" /\ IsDigit(b) /\ b # "0"
          THEN <<DigitVal(b), i + 2>>
        ELSE IF IsDigit(a) /\ a # "0"
          THEN <<DigitVal(a), i + 1>>
        ELSE IF a = " " /\ IsDigit(b) /\ b # "0"
          THEN <<DigitVal(b), i + 2>>
        ELSE <<0, i>>

IsLeap(y) == (y % 4 = 0) /\ ((y % 100 # 0) \/ (y % 400 = 0))

DaysInMonth(y, m) ==
    IF m = 2 THEN (IF IsLeap(y) THEN 29 ELSE 28)
    ELSE IF m \in {4, 6, 9, 11} THEN 30
    ELSE 31

ValueError == <<"ValueError">>

\* datetime.strptime(cs, "%Y-%m-%d"): the datetime at midnight, or ValueError
Strptime(cs) ==
    IF ~(\A i \in 1..4 : IsDigit(At(cs, i))) \/ At(cs, 5) # "-"
      THEN ValueError
    ELSE
      LET y  == 1000 * DigitVal(cs[1]) + 100 * DigitVal(cs[2])
                + 10 * DigitVal(cs[3]) + DigitVal(cs[4])
          mm == MatchMonth(cs, 6)
          dd == MatchDay(cs, mm[2] + 1)
      IN  IF mm[1] = 0 \/ dd[1] = 0 THEN ValueError
          ELSE IF dd[2] # Len(cs) + 1 THEN ValueError  \* unconverted data remains
          ELSE IF y < 1 \/ dd[1] > DaysInMonth(y, mm[1]) THEN ValueError
          ELSE <<y, mm[1], dd[1], 0, 0, 0, 0>>

RECURSIVE LexLess(_, _)
LexLess(a, b) ==
    IF Len(a) = 0 \/ Len(b) = 0 THEN FALSE
    ELSE IF a[1] # b[1] THEN a[1] < b[1]
    ELSE LexLess(Tail(a), Tail(b))

\* datetime.__lt__
DatetimeLess(a, b) == LexLess(a, b)

-----------------------------------------------------------------------------
(* Invoice records served by the remote API *)

NoClient == [id |-> Absent, name |-> Absent, emails |-> Absent, phone |-> Absent]

Client(id, name, emails, phone) ==
    [id |-> id, name |-> name, emails |-> emails, phone |-> phone]

Invoice(client, dueDate, items, id, url) ==
    [client |-> client, dueDate |-> dueDate, items |-> items, id |-> id,
     amount |-> IF id = Absent THEN Absent ELSE Some("100"),
     description |-> Absent,
     documentDate |-> IF url = Absent THEN Absent ELSE Some("2024-12-01"),
     url |-> url]

Item(dueDate) == [dueDate |-> dueDate]

ClientAcme == Some(Client(Some("c1"), Some("Acme"), Some(<<"a@x">>), Some("555")))
ClientBolt == Some(Client(Some("c1"), Some("Bolt"), Some(<<"b@x", "c@x">>), Absent))
ClientTwo == Some(Client(Some("c2"), Absent, Absent, Absent))
ClientCore == Some(Client(Some("c3"), Some("Core"), Some(<<>>), Some("")))
ClientNoId == Some(Client(Absent, Some("Nemo"), Absent, Absent))

He(link) == Some([he |-> Some(link)])
NoHe == Some([he |-> Absent])

\* retained: past due
P1 == Invoice(ClientAcme, Some("2000-01-01"), Absent, Some("i1"), He("L1"))
\* retained: same client id as P1, different name, emails and phone
P2 == Invoice(ClientBolt, Some("2030-12-31T23:59:59"), Absent, Some("i2"), NoHe)
\* retained: due date taken from the first item
P3 == Invoice(ClientTwo, Absent, Some(<<Item(Some("2025-01-01")), Item(Absent)>>),
              Some("i3"), Absent)
\* retained: no client object, no id, month and day not zero-padded
P4 == Invoice(Absent, Some("2025-1-1"), Absent, Absent, Absent)
\* retained: client object without id
P5 == Invoice(ClientNoId, Some("2024-02-29"), Some(<<>>), Some("i5"), He("L5"))
\* no due date: dueDate and items absent
P6 == Invoice(ClientAcme, Absent, Absent, Some("i6"), Absent)
\* no due date: dueDate absent, items present but empty
P7 == Invoice(ClientTwo, Absent, Some(<<>>), Some("i7"), Absent)
\* due date that is no calendar date
P8 == Invoice(ClientCore, Some("2024-02-30"), Absent, Some("i8"), Absent)
\* no client object, month out of range
P9 == Invoice(Absent, Some("2025-13-01"), Absent, Some("i9"), Absent)
\* empty dueDate, first item without dueDate
P10 == Invoice(ClientCore, Some(""), Some(<<Item(Absent)>>), Some("i10"), Absent)

InvoicePool == {P1, P2, P3, P4, P5, P6, P7, P8, P9, P10}

\* the records served in the repeated-request specification
SmallPool == {P1, P3, P6}

\* the records the API answers with, by data set
Served == IF api = "few" THEN SmallPool ELSE InvoicePool

\* values datetime.now() may return at line 82
Nows == { <<2025, 1, 1, 0, 0, 0, 0>>,
          <<2025, 1, 1, 0, 0, 0, 1>> }

RECURSIVE SeqsUpTo(_, _)
\* the lists over S of length at most n
SeqsUpTo(S, n) ==
    IF n = 0 THEN {<<>>}
    ELSE LET shorter == SeqsUpTo(S, n - 1)
         IN  shorter \cup {Append(q, e) : q \in shorter, e \in S}

-----------------------------------------------------------------------------
(* get_grouped_invoices: the loop body, lines 85-121 *)

\* line 86
ClientOf(inv) == DictGet(inv.client, NoClient)

\* line 87 with the default misspelt
ClientIdCapitalised(inv) == DictGet(ClientOf(inv).id, "Unknown")

\* line 87
ClientId(inv) == DictGet(ClientOf(inv).id, "unknown")

\* line 88
ClientName(inv) == DictGet(ClientOf(inv).name, "Unknown")

\* line 89
ClientEmail(inv) == Join(", ", DictGet(ClientOf(inv).emails, <<>>))

\* line 90
ClientPhone(inv) == DictGet(ClientOf(inv).phone, "")

\* line 92: the subscript [0] is evaluated, on an empty list
RaisesIndexError(inv) ==
    /\ ~Truthy(DictGet(inv.dueDate, None))
    /\ DictGet(inv.items, <<Item(Absent)>>) = <<>>

\* line 92, when it does not raise
DueDateStr(inv) ==
    LET top == DictGet(inv.dueDate, None)
    IN  IF Truthy(top) THEN top
        ELSE DictGet(DictGet(inv.items, <<Item(Absent)>>)[1].dueDate, None)

\* line 97
DueDate(due_date_str) == Strptime(Slice10(Chars(due_date_str)))

\* lines 93-99: the invoice is skipped by one of the two continue statements
Dropped(inv) ==
    IF ~Truthy(DueDateStr(inv)) THEN TRUE
    ELSE DueDate(DueDateStr(inv)) = ValueError

\* line 101 with <= in place of <
StatusNotStrict(due_date, t) ==
    IF ~DatetimeLess(t, due_date) THEN "past_due" ELSE "to_be_paid"

\* line 101
Status(due_date, t) ==
    IF DatetimeLess(due_date, t) THEN "past_due" ELSE "to_be_paid"

\* lines 103-111
InvoiceInfo(inv, t) ==
    [status        |-> Status(DueDate(DueDateStr(inv)), t),
     id            |-> DictGet(inv.id, None),
     amount        |-> DictGet(inv.amount, None),
     description   |-> DictGet(inv.description, None),
     download_link |-> DictGet(DictGet(inv.url, [he |-> Absent]).he, None),
     create_date   |-> DictGet(inv.documentDate, None),
     due_date      |-> DueDateStr(inv)]

\* lines 114-119: the value stored for a new key
NewGroup(inv) ==
    [client_name  |-> ClientName(inv),
     client_email |-> ClientEmail(inv),
     client_phone |-> ClientPhone(inv),
     invoices     |-> <<>>]

\* lines 113-119 with the name, emails and phone stored on every invoice
WithGroupRefreshed(cl, inv) ==
    IF ClientId(inv) \in DOMAIN cl
      THEN [cl EXCEPT ![ClientId(inv)].client_name = ClientName(inv),
                      ![ClientId(inv)].client_email = ClientEmail(inv),
                      ![ClientId(inv)].client_phone = ClientPhone(inv)]
    ELSE cl @@ (ClientId(inv) :> NewGroup(inv))

\* lines 113-119: the values of clients after the if statement
WithGroup(cl, inv) ==
    IF ClientId(inv) \in DOMAIN cl THEN cl
    ELSE cl @@ (ClientId(inv) :> NewGroup(inv))

\* lines 113-119 over a mapping that iterates newest key first
WithKeyInFront(ord, k) ==
    IF \E j \in 1..Len(ord) : ord[j] = k THEN ord ELSE <<k>> \o ord

\* lines 113-119: the keys of clients, in insertion order, after the if statement
WithKey(ord, k) ==
    IF \E j \in 1..Len(ord) : ord[j] = k THEN ord ELSE Append(ord, k)

\* line 121 with insert(0, ...) in place of append
WithInvoiceInFront(cl, k, info) == [cl EXCEPT ![k].invoices = <<info>> \o @]

\* line 121
WithInvoice(cl, k, info) == [cl EXCEPT ![k].invoices = Append(@, info)]

-----------------------------------------------------------------------------
(* get_grouped_invoices: CSV construction, lines 125-168 *)

RECURSIVE MaxLenOver(_, _)
\* max(len(c["invoices"]) for c in the values of cl taken in the order ord)
MaxLenOver(cl, ord) ==
    IF Len(ord) = 1 THEN Len(cl[ord[1]].invoices)
    ELSE Max(Len(cl[ord[1]].invoices), MaxLenOver(cl, Tail(ord)))

\* line 125
MaxInvoices(cl, ord) == IF Len(ord) > 0 THEN MaxLenOver(cl, ord) ELSE 0

\* line 128
base_headers == <<"client_id", "client_name", "client_email", "client_phone">>

\* lines 131-139: the seven names of slot i
SlotHeaders(i) ==
    LET p == "invoice" \o ToString(i)
    IN  <<p \o "_status", p \o "_id", p \o "_amount", p \o "_description",
          p \o "_download_link", p \o "_create_date", p \o "_due_date">>

RECURSIVE InvoiceHeaders(_)
\* lines 129-139: the names of slots 1..n
InvoiceHeaders(n) ==
    IF n = 0 THEN <<>> ELSE InvoiceHeaders(n - 1) \o SlotHeaders(n)

\* line 140
Headers(n) == base_headers \o InvoiceHeaders(n)

\* lines 155-163
InvoiceCells(invoice) ==
    <<invoice.status, invoice.id, invoice.amount, invoice.description,
      invoice.download_link, invoice.create_date, invoice.due_date>>

RECURSIVE AllInvoiceCells(_)
\* lines 154-163
AllInvoiceCells(invs) ==
    IF Len(invs) = 0 THEN <<>>
    ELSE InvoiceCells(invs[1]) \o AllInvoiceCells(Tail(invs))

\* line 165 left out
PadMissing(row, width) == row

\* line 165: row += [""] * (width - len(row))
Pad(row, width) == row \o [i \in 1..(width - Len(row)) |-> ""]

\* lines 148-165
Row(client_id, data, width) ==
    Pad(<<client_id, data.client_name, data.client_email, data.client_phone>>
          \o AllInvoiceCells(data.invoices),
        width)

\* lines 147-166: one row per item of clients, in the dict's iteration order
Rows(cl, ord, width) ==
    [j \in 1..Len(ord) |-> Row(ord[j], cl[ord[j]], width)]

\* csv.writer renders None as the empty field and a str as itself; csv.reader
\* (line 72) reads the field back as that str
CsvField(v) == IF v = None THEN "" ELSE v

CsvRow(row) == [c \in 1..Len(row) |-> CsvField(row[c])]

\* lines 143-168: the header line followed by one line per row
CsvString(hdr, rws) ==
    <<CsvRow(hdr)>> \o [j \in 1..Len(rws) |-> CsvRow(rws[j])]

-----------------------------------------------------------------------------
(* upload_to_google_sheet: the worksheet, lines 66-73 *)

GridRows == MaxLen + 1

GridCols == 4 + 7 * MaxLen

\* worksheet.clear(): every cell loses its value
Cleared == [r \in 1..GridRows |-> [c \in 1..GridCols |-> ""]]

\* worksheet.update(values): the cells of the range starting at A1 that values
\* covers take its values, every other cell keeps its own
Updated(sh, values) ==
    [r \in 1..GridRows |->
        [c \in 1..GridCols |->
            IF r <= Len(values) /\ c <= Len(values[r])
              THEN values[r][c] ELSE sh[r][c]]]

-----------------------------------------------------------------------------
(* State machine *)

NoResponse == Absent

NotYet == <<>>

Locals == <<invoices, now, clients, order, idx, max_invoices, headers, rows,
            csv_string>>

\* the state of a request that has not run any statement yet
Fresh ==
    /\ pc = "token"
    /\ invoices = <<>>
    /\ now = NotYet
    /\ clients = <<>>
    /\ order = <<>>
    /\ idx = 1
    /\ max_invoices = 0
    /\ headers = <<>>
    /\ rows = <<>>
    /\ csv_string = <<>>
    /\ response = NoResponse
    /\ raised = ""

Init ==
    /\ Fresh
    /\ api = "all"
    /\ sheet = Cleared
    /\ sheet_before = Cleared

InitRuns ==
    /\ Fresh
    /\ api = "few"
    /\ sheet = Cleared
    /\ sheet_before = Cleared

\* an exception leaves the handler: no Response is returned
Raise(name) ==
    /\ pc' = "failed"
    /\ raised' = name
    /\ UNCHANGED <<api, Locals, sheet, response, sheet_before>>

\* line 79: get_bearer_token
GetBearerToken ==
    /\ pc = "token"
    /\ \/ /\ pc' = "search"
          /\ UNCHANGED <<api, Locals, sheet, response, raised, sheet_before>>
       \/ Raise("HTTPError")

\* line 80: get_open_invoices
GetOpenInvoices ==
    /\ pc = "search"
    /\ \/ /\ \E list \in SeqsUpTo(Served, MaxLen) : invoices' = list
          /\ pc' = "now"
          /\ UNCHANGED <<api, now, clients, order, idx, max_invoices,
                         headers, rows, csv_string, sheet, response, raised,
                         sheet_before>>
       \/ Raise("HTTPError")

\* lines 82-83
ReadNow ==
    /\ pc = "now"
    /\ \E t \in Nows : now' = t
    /\ clients' = <<>>
    /\ order' = <<>>
    /\ idx' = 1
    /\ pc' = "loop"
    /\ UNCHANGED <<api, invoices, max_invoices, headers, rows,
                   csv_string, sheet, response, raised, sheet_before>>

\* lines 85-121 with the group created (lines 113-119) before the due date
\* is looked at (lines 92-99)
LoopStepGroupFirst ==
    /\ pc = "loop"
    /\ idx <= Len(invoices)
    /\ LET inv == invoices[idx]
       IN  \/ /\ RaisesIndexError(inv)
              /\ Raise("IndexError")
           \/ /\ ~RaisesIndexError(inv)
              /\ Dropped(inv)
              /\ clients' = WithGroup(clients, inv)
              /\ order' = WithKey(order, ClientId(inv))
              /\ idx' = idx + 1
              /\ UNCHANGED <<pc, api, invoices, now, max_invoices, headers,
                             rows, csv_string, sheet, response, raised,
                             sheet_before>>
           \/ /\ ~RaisesIndexError(inv)
              /\ ~Dropped(inv)
              /\ clients' = WithInvoice(WithGroup(clients, inv), ClientId(inv),
                                        InvoiceInfo(inv, now))
              /\ order' = WithKey(order, ClientId(inv))
              /\ idx' = idx + 1
              /\ UNCHANGED <<pc, api, invoices, now, max_invoices, headers,
                             rows, csv_string, sheet, response, raised,
                             sheet_before>>

\* lines 85-121: one iteration of the for loop
LoopStep ==
    /\ pc = "loop"
    /\ idx <= Len(invoices)
    /\ LET inv == invoices[idx]
       IN  \/ /\ RaisesIndexError(inv)
              /\ Raise("IndexError")
           \/ /\ ~RaisesIndexError(inv)
              /\ Dropped(inv)
              /\ idx' = idx + 1
              /\ UNCHANGED <<pc, api, invoices, now, clients, order,
                             max_invoices, headers, rows, csv_string, sheet,
                             response, raised, sheet_before>>
           \/ /\ ~RaisesIndexError(inv)
              /\ ~Dropped(inv)
              /\ clients' = WithInvoice(WithGroup(clients, inv), ClientId(inv),
                                        InvoiceInfo(inv, now))
              /\ order' = WithKey(order, ClientId(inv))
              /\ idx' = idx + 1
              /\ UNCHANGED <<pc, api, invoices, now, max_invoices, headers,
                             rows, csv_string, sheet, response, raised,
                             sheet_before>>

\* lines 125-169: the table and its CSV text
BuildTable ==
    /\ pc = "loop"
    /\ idx > Len(invoices)
    /\ max_invoices' = MaxInvoices(clients, order)
    /\ headers' = Headers(max_invoices')
    /\ rows' = Rows(clients, order, Len(headers'))
    /\ csv_string' = CsvString(headers', rows')
    /\ pc' = "open"
    /\ UNCHANGED <<api, invoices, now, clients, order, idx, sheet,
                   response, raised, sheet_before>>

\* lines 61-68: the credentials, the authorization, the spreadsheet and the
\* worksheet lookup
OpenWorksheet ==
    /\ pc = "open"
    /\ \/ /\ pc' = "clear"
          /\ UNCHANGED <<api, Locals, sheet, response, raised, sheet_before>>
       \/ Raise("SpreadsheetNotFound")

\* line 69 left out
ClearSheetSkipped ==
    /\ pc = "clear"
    /\ \/ /\ pc' = "update"
          /\ UNCHANGED <<api, Locals, sheet, response, raised, sheet_before>>
       \/ Raise("APIError")

\* line 69
ClearSheet ==
    /\ pc = "clear"
    /\ \/ /\ sheet' = Cleared
          /\ pc' = "update"
          /\ UNCHANGED <<api, Locals, response, raised, sheet_before>>
       \/ Raise("APIError")

\* lines 72-73
UpdateSheet ==
    /\ pc = "update"
    /\ \/ /\ sheet' = Updated(sheet, csv_string)
          /\ pc' = "respond"
          /\ UNCHANGED <<api, Locals, response, raised, sheet_before>>
       \/ Raise("APIError")

\* line 172
Respond ==
    /\ pc = "respond"
    /\ response' = Some(csv_string)
    /\ pc' = "done"
    /\ UNCHANGED <<api, Locals, sheet, raised, sheet_before>>

\* the next GET /grouped-invoices: the handler's locals start afresh
NewRequest ==
    /\ pc \in {"done", "failed"}
    /\ pc' = "token"
    /\ invoices' = <<>>
    /\ now' = NotYet
    /\ clients' = <<>>
    /\ order' = <<>>
    /\ idx' = 1
    /\ max_invoices' = 0
    /\ headers' = <<>>
    /\ rows' = <<>>
    /\ csv_string' = <<>>
    /\ response' = NoResponse
    /\ raised' = ""
    /\ sheet_before' = sheet
    /\ UNCHANGED <<api, sheet>>

Next ==
    \/ GetBearerToken
    \/ GetOpenInvoices
    \/ ReadNow
    \/ LoopStep
    \/ BuildTable
    \/ OpenWorksheet
    \/ ClearSheet
    \/ UpdateSheet
    \/ Respond

NextRuns ==
    \/ Next
    \/ NewRequest

Spec == Init /\ [][Next]_vars

SpecRuns == InitRuns /\ [][NextRuns]_vars

-----------------------------------------------------------------------------
(* Vocabulary of the properties *)

\* the invoice is appended to a group when the loop reaches it
Retained(inv) == IF RaisesIndexError(inv) THEN FALSE ELSE ~Dropped(inv)

\* the loop has run its iteration for position j
Processed(j) == j >= 1 /\ j < idx /\ j <= Len(invoices)

\* lines 125-168 have run in this request
Built == Len(headers) > 0

\* the positions of the invoices with client key k, retained ones only
RetainedAt(k, upto) ==
    {j \in 1..upto : ClientId(invoices[j]) = k /\ Retained(invoices[j])}

\* the positions of the invoices with client key k, dropped ones included
SeenAt(k) == {j \in 1..Len(invoices) : ClientId(invoices[j]) = k}

SetMin(S) == CHOOSE n \in S : \A m \in S : n <= m

SetMax(S) == CHOOSE n \in S : \A m \in S : n >= m

\* the largest number of invoices held by a group, 0 without groups
LargestGroup ==
    IF DOMAIN clients = {} THEN 0
    ELSE SetMax({Len(clients[k].invoices) : k \in DOMAIN clients})

-----------------------------------------------------------------------------
(* C1: once the table is built, the header and every data row have exactly  *)
(* 4 + 7 * max_invoices cells, max_invoices being the size of the largest   *)
(* group (0 without groups: a 4-column header and no data row); there is    *)
(* one row per group, and the cells after a group's invoices are all "".    *)
C1_RowWidth ==
    Built =>
        /\ max_invoices = LargestGroup
        /\ Len(headers) = 4 + 7 * LargestGroup
        /\ Len(rows) = Cardinality(DOMAIN clients)
        /\ \A j \in 1..Len(rows) :
              /\ Len(rows[j]) = 4 + 7 * LargestGroup
              /\ \A c \in 1..Len(rows[j]) :
                    c > 4 + 7 * Len(clients[order[j]].invoices)
                        => rows[j][c] = ""
        /\ (DOMAIN clients = {} => Len(headers) = 4 /\ rows = <<>>)

\* a table with a padded row: one group is smaller than the largest
C1_Witness ==
    /\ Built
    /\ \E j \in 1..Len(rows) :
          /\ Len(clients[order[j]].invoices) < LargestGroup
          /\ rows[j][Len(rows[j])] = ""

-----------------------------------------------------------------------------
(* C2: an invoice with no top-level dueDate and no dueDate on its first     *)
(* item (items absent, items empty, or a first item without dueDate) does   *)
(* not make the run raise when the loop reaches it, and is in no group.     *)
NoDueDate(inv) ==
    /\ ~Truthy(DictGet(inv.dueDate, None))
    /\ \/ inv.items = Absent
       \/ Len(inv.items[1]) = 0
       \/ ~Truthy(DictGet(inv.items[1][1].dueDate, None))

C2_NoDueDateDropped ==
    \A j \in 1..Len(invoices) :
        NoDueDate(invoices[j]) =>
            /\ ~(pc = "failed" /\ raised = "IndexError" /\ idx = j)
            /\ \A k \in DOMAIN clients :
                  \A i \in 1..Len(clients[k].invoices) :
                      clients[k].invoices[i].id # DictGet(invoices[j].id, None)

-----------------------------------------------------------------------------
(* C3: every retained invoice carries the status computed against the one   *)
(* value of now read before the loop: past_due exactly when its due date,   *)
(* taken at midnight, is strictly earlier than now; to_be_paid otherwise.   *)
StrictlyEarlier(due, t) ==
    \/ due[1] < t[1]
    \/ due[1] = t[1] /\ due[2] < t[2]
    \/ due[1] = t[1] /\ due[2] = t[2] /\ due[3] < t[3]
    \/ /\ due[1] = t[1] /\ due[2] = t[2] /\ due[3] = t[3]
       /\ (t[4] > 0 \/ t[5] > 0 \/ t[6] > 0 \/ t[7] > 0)

C3_StatusAgainstNow ==
    \A k \in DOMAIN clients :
        \A i \in 1..Len(clients[k].invoices) :
            LET info == clients[k].invoices[i]
                due  == DueDate(info.due_date)
            IN  /\ info.status \in {"past_due", "to_be_paid"}
                /\ info.status = "past_due" <=> StrictlyEarlier(due, now)

\* an invoice due exactly at now has been classified
C3_Witness ==
    \E k \in DOMAIN clients :
        \E i \in 1..Len(clients[k].invoices) :
            /\ DueDate(clients[k].invoices[i].due_date) = now
            /\ clients[k].invoices[i].status = "to_be_paid"

-----------------------------------------------------------------------------
(* C4: a step of a request never changes client_name, client_email or       *)
(* client_phone of a group that exists, and changes its invoices at most by *)
(* appending one invoice.                                                   *)
C4_MetadataFrozen ==
    [][\A k \in DOMAIN clients :
          k \in DOMAIN clients' =>
              /\ clients'[k].client_name = clients[k].client_name
              /\ clients'[k].client_email = clients[k].client_email
              /\ clients'[k].client_phone = clients[k].client_phone
              /\ \/ clients'[k].invoices = clients[k].invoices
                 \/ /\ Len(clients'[k].invoices) = Len(clients[k].invoices) + 1
                    /\ SubSeq(clients'[k].invoices, 1, Len(clients[k].invoices))
                         = clients[k].invoices]_vars

\* a group has taken a later invoice whose name, emails and phone all differ
C4_Witness ==
    \E j \in 2..Len(invoices) :
        LET inv == invoices[j]
            k   == ClientId(inv)
        IN  /\ Processed(j)
            /\ Retained(inv)
            /\ k \in DOMAIN clients
            /\ Len(clients[k].invoices) >= 2
            /\ clients[k].client_name # ClientName(inv)
            /\ clients[k].client_email # ClientEmail(inv)
            /\ clients[k].client_phone # ClientPhone(inv)

-----------------------------------------------------------------------------
(* C5: every retained invoice without a client object, or whose client has  *)
(* no id, is in the group keyed "unknown" once the loop has passed it; the  *)
(* dict holds that key at most once; the group has name "Unknown", email "" *)
(* and phone "" when the invoice that created it lacks those fields; and an *)
(* IndexError is never raised at a retained invoice.                        *)
NoClientId(inv) == inv.client = Absent \/ inv.client[1].id = Absent

C5_UnknownGroup ==
    /\ \A j \in 1..Len(invoices) :
          (Processed(j) /\ Retained(invoices[j]) /\ NoClientId(invoices[j])) =>
              /\ "unknown" \in DOMAIN clients
              /\ \E i \in 1..Len(clients["unknown"].invoices) :
                    clients["unknown"].invoices[i] = InvoiceInfo(invoices[j], now)
              /\ \A k \in DOMAIN clients \ {"unknown"} :
                    \A i \in 1..Len(clients[k].invoices) :
                        clients[k].invoices[i].id # DictGet(invoices[j].id, None)
    /\ Cardinality({j \in 1..Len(order) : order[j] = "unknown"}) <= 1
    /\ "unknown" \in DOMAIN clients =>
          LET first == invoices[SetMin(RetainedAt("unknown", idx - 1))]
          IN  /\ ClientOf(first).name = Absent
                    => clients["unknown"].client_name = "Unknown"
              /\ ClientOf(first).emails = Absent
                    => clients["unknown"].client_email = ""
              /\ ClientOf(first).phone = Absent
                    => clients["unknown"].client_phone = ""
    /\ (pc = "failed" /\ raised = "IndexError") => ~Retained(invoices[idx])

\* two invoices without a client id, one without a client object and one
\* with a client object that has no id, share the group "unknown"
C5_Witness ==
    /\ "unknown" \in DOMAIN clients
    /\ Len(clients["unknown"].invoices) >= 2
    /\ clients["unknown"].client_name = "Unknown"
    /\ \E j \in 1..Len(invoices) :
          Processed(j) /\ Retained(invoices[j]) /\ invoices[j].client = Absent
    /\ \E j \in 1..Len(invoices) :
          /\ Processed(j) /\ Retained(invoices[j])
          /\ invoices[j].client # Absent /\ NoClientId(invoices[j])

-----------------------------------------------------------------------------
(* C6, as stated: the data rows are ordered by the position of the first    *)
(* invoice of each client in the input list, dropped invoices included.     *)
C6_RowsByFirstInvoice ==
    Built =>
        \A a, b \in 1..Len(rows) :
            SetMin(SeenAt(rows[a][1])) < SetMin(SeenAt(rows[b][1])) => a < b

(* C6, amended: the data rows are the groups in insertion order, which is   *)
(* the order of the first retained invoice of each client in the input      *)
(* list; a client without a retained invoice has no row.                    *)
C6_RowsByFirstRetained ==
    Built =>
        /\ Len(rows) = Len(order)
        /\ \A a \in 1..Len(rows) :
              /\ rows[a][1] = order[a]
              /\ RetainedAt(rows[a][1], Len(invoices)) # {}
        /\ \A a, b \in 1..Len(rows) :
              SetMin(RetainedAt(rows[a][1], Len(invoices)))
                < SetMin(RetainedAt(rows[b][1], Len(invoices))) <=> a < b
        /\ \A j \in 1..Len(invoices) :
              Retained(invoices[j]) =>
                  \E a \in 1..Len(rows) : rows[a][1] = ClientId(invoices[j])

\* a table whose second row belongs to a client seen first, in a dropped invoice
C6_Witness ==
    /\ Built
    /\ \E a, b \in 1..Len(rows) :
          /\ a < b
          /\ SetMin(SeenAt(rows[b][1])) < SetMin(SeenAt(rows[a][1]))

-----------------------------------------------------------------------------
(* C7: a request that fails returns no response and leaves the worksheet    *)
(* as it was when the request started.                                      *)
C7_FailureLeavesSheet ==
    pc = "failed" => response = NoResponse /\ sheet = sheet_before

-----------------------------------------------------------------------------
(* C8: the worksheet is empty when worksheet.update is called, and after a  *)
(* successful request every cell inside the table holds the table's cell as *)
(* the CSV text renders it, and every cell outside the table is empty,      *)
(* whatever the worksheet held before.                                      *)
TableOf(hdr, rws) == <<hdr>> \o rws

C8_FullOverwrite ==
    /\ pc = "update" => \A r \in 1..GridRows : \A c \in 1..GridCols : sheet[r][c] = ""
    /\ pc \in {"respond", "done"} =>
          LET table == TableOf(headers, rows)
          IN  \A r \in 1..GridRows : \A c \in 1..GridCols :
                  sheet[r][c] =
                      IF r <= Len(table) /\ c <= Len(table[r])
                        THEN (IF table[r][c] = None THEN "" ELSE table[r][c])
                        ELSE ""

\* a successful request over a worksheet that held a longer and a wider table
C8_Witness ==
    /\ pc = "done"
    /\ \E r \in 1..GridRows : r > 1 + Len(rows) /\ sheet_before[r][1] # ""
    /\ \E c \in 1..GridCols : c > Len(headers) /\ sheet_before[1][c] # ""

-----------------------------------------------------------------------------
(* C9: the iteration for a dropped invoice changes neither the keys nor the *)
(* values of clients; every group holds at least one invoice; and a client  *)
(* whose invoices were all dropped has no group and, in the table, no row.  *)
C9_DropKeepsClients ==
    /\ [][(/\ pc = "loop"
           /\ idx <= Len(invoices)
           /\ ~Retained(invoices[idx])
           /\ ~RaisesIndexError(invoices[idx]))
              => (clients' = clients /\ order' = order)]_vars
    /\ [](\A k \in DOMAIN clients : Len(clients[k].invoices) >= 1)
    /\ [](\A j \in 1..Len(invoices) :
             RetainedAt(ClientId(invoices[j]), Len(invoices)) = {} =>
                 /\ ClientId(invoices[j]) \notin DOMAIN clients
                 /\ \A a \in 1..Len(rows) : rows[a][1] # ClientId(invoices[j]))

\* a table built from a list in which every invoice of some client was dropped
C9_Witness ==
    /\ Built
    /\ Len(rows) >= 1
    /\ \E j \in 1..Len(invoices) :
          /\ ~Retained(invoices[j])
          /\ RetainedAt(ClientId(invoices[j]), Len(invoices)) = {}

-----------------------------------------------------------------------------
(* C10: the invoices of the group of key k are the retained invoices with   *)
(* key k among those the loop has passed, in input order; a key without one *)
(* has no group; the groups hold as many invoices as were retained.         *)
RECURSIVE ExpectedOf(_, _)
ExpectedOf(k, upto) ==
    IF upto = 0 THEN <<>>
    ELSE IF ClientId(invoices[upto]) = k /\ Retained(invoices[upto])
      THEN Append(ExpectedOf(k, upto - 1), InvoiceInfo(invoices[upto], now))
    ELSE ExpectedOf(k, upto - 1)

RECURSIVE TotalOver(_)
TotalOver(ord) ==
    IF Len(ord) = 0 THEN 0
    ELSE Len(clients[ord[1]].invoices) + TotalOver(Tail(ord))

PassedCount == Min(idx - 1, Len(invoices))

C10_GroupsAreSubsequences ==
    /\ \A k \in DOMAIN clients : clients[k].invoices = ExpectedOf(k, PassedCount)
    /\ \A j \in 1..PassedCount :
          Retained(invoices[j]) => ClientId(invoices[j]) \in DOMAIN clients
    /\ {order[j] : j \in 1..Len(order)} = DOMAIN clients
    /\ TotalOver(order)
          = Cardinality({j \in 1..PassedCount : Retained(invoices[j])})

\* aggregation is over: a group holds the two invoices that surround a
\* dropped invoice of the input
C10_Witness ==
    /\ pc = "open"
    /\ \E k \in DOMAIN clients : Len(clients[k].invoices) >= 2
    /\ \E j \in 2..Len(invoices) :
          /\ ~Retained(invoices[j])
          /\ j < Len(invoices)
          /\ ClientId(invoices[j - 1]) = ClientId(invoices[j + 1])
          /\ Retained(invoices[j - 1]) /\ Retained(invoices[j + 1])

====
